---- MODULE Spec2Model ----
(* Model of the entity extraction pipeline of src/app.py:                    *)
(* WebSearcher.search, LLMProcessor.extract_information and                  *)
(* DataProcessor.process_entities.  Texts are sequences of one-character     *)
(* strings so that join, strip and emptiness are computed, not assumed.      *)
EXTENDS Integers, Sequences, FiniteSets, TLC

VARIABLES entities, prompt, pc, idx, num_entities, results, search_results,
          extracted_info, progress, errors, trace, lastResponse, snippets,
          lastLLM, exc

vars == <<entities, prompt, pc, idx, num_entities, results, search_results,
          extracted_info, progress, errors, trace, lastResponse, snippets,
          lastLLM, exc>>

(* ------------------------------------------------------------------ *)
(* Bounds of the explored inputs                                      *)
(* ------------------------------------------------------------------ *)
MaxEntities == 2
MaxResults == 6
MaxMixed == 2

(* ------------------------------------------------------------------ *)
(* Program constants                                                  *)
(* ------------------------------------------------------------------ *)
NumRequested == 5
NoDataFound == <<"N","o"," ","d","a","t","a"," ","f","o","u","n","d">>
Newline == "\n"
Whitespace == {" ", "\t", "\n", "\r", "\f"}
EmptyText == <<>>
\* a Python value that is a str (none = FALSE, text v) or None (none = TRUE)
Str(v) == [none |-> FALSE, v |-> v]
None == [none |-> TRUE, v |-> <<>>]

(* ------------------------------------------------------------------ *)
(* Inputs                                                             *)
(* ------------------------------------------------------------------ *)
EntityNames == {"Acme Corp", "Globex"}

SeqsUpTo(S, n) == UNION {[1..k -> S] : k \in 0..n}

EntityLists == SeqsUpTo(EntityNames, MaxEntities)

\* a prompt template is a sequence of literal pieces and "{entity}" slots;
\* the templates explored are the valid ones (format does not raise on them)
DefaultPrompt == <<"Who is the ceo of ", "{entity}", "?">>
Prompts == {DefaultPrompt}

\* one element of organic_results: k = "str" (snippet is the text v),
\* "absent" (object without snippet), "null" (snippet is null),
\* "notobj" (the element is not a JSON object)
Item(k, v) == [k |-> k, v |-> v]
StrItem(v) == Item("str", v)
AbsentItem == Item("absent", EmptyText)
NullItem == Item("null", EmptyText)
NotObjItem == Item("notobj", EmptyText)

MixedItems == {AbsentItem, StrItem(EmptyText), StrItem(<<"a">>), NullItem, NotObjItem}
UniformItems == {AbsentItem, StrItem(<<"a">>)}

SpecExampleList == <<StrItem(<<"a">>), StrItem(<<"b">>), AbsentItem>>

ResultLists ==
    SeqsUpTo(MixedItems, MaxMixed)
    \cup {[j \in 1..k |-> it] : k \in 1..MaxResults, it \in UniformItems}
    \cup {SpecExampleList}

\* what the HTTP call produces: status "neterr" (requests.get raises),
\* "httperr" (raise_for_status raises) or "ok" with a JSON body whose
\* organic_results is org = "absent" | "null" | "number" | "list";
\* org = "nobody" is a body that is not a JSON object
Response(status, org, items) == [status |-> status, org |-> org, items |-> items]

Responses ==
    {Response("neterr", "absent", <<>>), Response("httperr", "absent", <<>>)}
    \cup {Response("ok", o, <<>>) : o \in {"absent", "null", "number", "nobody"}}
    \cup {Response("ok", "list", l) : l \in ResultLists}

NoResponse == Response("none", "absent", <<>>)

\* a response with HTTP success whose body departs from the expected shape:
\* organic_results null or not a list, an element that is not an object, or a
\* null snippet (absent organic_results and absent snippets are listed apart)
Malformed(resp) ==
    /\ resp.status = "ok"
    /\ \/ resp.org \in {"null", "number", "nobody"}
       \/ \E j \in 1..Len(resp.items) : resp.items[j].k \in {"null", "notobj"}

\* what the completion call produces: kind "ok" with the first choice's
\* content, "api_error" (create raises) or "null_content" (the content is
\* None, so .strip() raises)
ExampleContent == <<" "," ","a","n","s","w","e","r"," ","t","e","x","t"," ","\n">>
Contents == {<<" ">>, <<"J">>, <<"\t","J"," ","D","\n">>, ExampleContent, NoDataFound}

LLMOutcomes ==
    {[kind |-> "ok", content |-> c] : c \in Contents}
    \cup {[kind |-> k, content |-> EmptyText] : k \in {"api_error", "null_content"}}

NoLLM == [kind |-> "none", content |-> EmptyText]

(* ------------------------------------------------------------------ *)
(* Pure helpers                                                       *)
(* ------------------------------------------------------------------ *)
\* prompt.format(entity=entity)
Format(p, entity) == [j \in 1..Len(p) |-> IF p[j] = "{entity}" THEN entity ELSE p[j]]

\* result.get("snippet", "")
GetSnippet(item) ==
    CASE item.k = "str" -> Str(item.v)
      [] item.k = "absent" -> Str(EmptyText)
      [] item.k = "null" -> None

\* a join that ends every snippet with the separator
RECURSIVE Join_Trailing(_)
Join_Trailing(snips) ==
    IF Len(snips) = 0 THEN EmptyText
    ELSE snips[1] \o <<Newline>> \o Join_Trailing(Tail(snips))

\* "\n".join(snippets), for a list of texts
RECURSIVE Join(_)
Join(snips) ==
    IF Len(snips) = 0 THEN EmptyText
    ELSE IF Len(snips) = 1 THEN snips[1]
    ELSE snips[1] \o <<Newline>> \o Join(Tail(snips))

\* str.strip()
RECURSIVE LStrip(_)
LStrip(s) == IF Len(s) > 0 /\ s[1] \in Whitespace THEN LStrip(Tail(s)) ELSE s

RECURSIVE RStrip(_)
RStrip(s) ==
    IF Len(s) > 0 /\ s[Len(s)] \in Whitespace THEN RStrip(SubSeq(s, 1, Len(s) - 1)) ELSE s

\* a strip that forgets the right end
Strip_Left(s) == LStrip(s)

Strip(s) == RStrip(LStrip(s))

\* a test that always takes the extraction branch
Truthy_Always(s) == TRUE

\* a test that looks for snippet content instead of any text
Truthy_HasContent(s) == \E j \in 1..Len(s) : s[j] # Newline

\* truth value of a str in `if search_results:`
Truthy(s) == Len(s) > 0

(* ------------------------------------------------------------------ *)
(* WebSearcher.search                                                 *)
(* ------------------------------------------------------------------ *)
SearchReturn(text, snips, err) ==
    [raised |-> "none", text |-> text, snippets |-> snips, error |-> err]
SearchRaise(e) ==
    [raised |-> e, text |-> EmptyText, snippets |-> <<>>, error |-> FALSE]

\* response.json().get("organic_results", [])
OrganicResults(resp) == IF resp.org = "absent" THEN <<>> ELSE resp.items

Snippets(res) == [j \in 1..Len(res) |-> GetSnippet(res[j])]

\* a handler that catches connection errors only
Caught_NetworkOnly(resp) == resp.status = "neterr"

\* `except requests.exceptions.RequestException`: the ConnectionError of
\* requests.get and the HTTPError of raise_for_status are both caught
Caught(resp) == resp.status \in {"neterr", "httperr"}

search(entity, p, resp) ==
    IF resp.status # "ok"
    THEN IF Caught(resp) THEN SearchReturn(EmptyText, <<>>, TRUE)
         ELSE SearchRaise("RequestException")
    ELSE IF resp.org = "nobody" THEN SearchRaise("AttributeError")
    ELSE IF resp.org \in {"null", "number"} THEN SearchRaise("TypeError")
    ELSE LET res == OrganicResults(resp) IN
         IF \E j \in 1..Len(res) : res[j].k = "notobj" THEN SearchRaise("AttributeError")
         ELSE LET snips == Snippets(res) IN
              IF \E j \in 1..Len(snips) : snips[j] = None THEN SearchRaise("TypeError")
              ELSE LET texts == [j \in 1..Len(snips) |-> snips[j].v] IN
                   SearchReturn(Join(texts), texts, FALSE)

(* ------------------------------------------------------------------ *)
(* LLMProcessor.extract_information                                   *)
(* ------------------------------------------------------------------ *)
ExtractReturn(text, err) == [text |-> text, error |-> err]

\* an adapter that returns the error message instead of the empty text
extract_information_Message(entity, p, text, llm) ==
    IF llm.kind = "ok" THEN ExtractReturn(Strip(llm.content), FALSE)
    ELSE ExtractReturn(<<"E", "r", "r", "o", "r">>, TRUE)

extract_information(entity, p, text, llm) ==
    IF llm.kind = "ok" THEN ExtractReturn(Strip(llm.content), FALSE)
    ELSE ExtractReturn(EmptyText, TRUE)

(* ------------------------------------------------------------------ *)
(* DataProcessor.process_entities                                     *)
(* ------------------------------------------------------------------ *)
Record(entity, extracted) == [Entity |-> entity, Extracted |-> extracted]

Event(op, i, d) == [op |-> op, i |-> i, d |-> d]

Init ==
    /\ entities \in EntityLists
    /\ prompt \in Prompts
    /\ pc = "start"
    /\ idx = 0
    /\ num_entities = 0
    /\ results = <<>>
    /\ search_results = EmptyText
    /\ extracted_info = EmptyText
    /\ progress = <<0, 1>>
    /\ errors = <<>>
    /\ trace = <<>>
    /\ lastResponse = NoResponse
    /\ snippets = <<>>
    /\ lastLLM = NoLLM
    /\ exc = "none"

\* results = []; num_entities = len(entities)
Call ==
    /\ pc = "start"
    /\ results' = <<>>
    /\ num_entities' = Len(entities)
    /\ idx' = 0
    /\ pc' = "loop"
    /\ UNCHANGED <<entities, prompt, search_results, extracted_info, progress,
                   errors, trace, lastResponse, snippets, lastLLM, exc>>

\* st.progress((idx + 1) / num_entities)
ProgressValue(i, n) == <<i + 1, n>>

Progress ==
    /\ pc = "loop"
    /\ idx < Len(entities)
    /\ progress' = ProgressValue(idx, num_entities)
    /\ trace' = Append(trace, Event("progress", idx, ProgressValue(idx, num_entities)))
    /\ pc' = "search"
    /\ UNCHANGED <<entities, prompt, idx, num_entities, results, search_results,
                   extracted_info, errors, lastResponse, snippets, lastLLM, exc>>

\* search_results = self.web_searcher.search(entity, prompt)
Search ==
    /\ pc = "search"
    /\ \E resp \in Responses :
         LET out == search(entities[idx + 1], prompt, resp) IN
         /\ lastResponse' = resp
         /\ snippets' = out.snippets
         /\ exc' = out.raised
         /\ errors' = IF out.error THEN Append(errors, "search") ELSE errors
         /\ trace' = Append(trace, Event("search", idx,
                        [status |-> resp.status, malformed |-> Malformed(resp),
                         raised |-> out.raised,
                         q |-> Format(prompt, entities[idx + 1]),
                         empty |-> (out.text = EmptyText)]))
         /\ IF out.raised = "none"
            THEN search_results' = out.text /\ pc' = "branch"
            ELSE search_results' = search_results /\ pc' = "raised"
    /\ UNCHANGED <<entities, prompt, idx, num_entities, results, extracted_info,
                   progress, lastLLM>>

\* if search_results: extracted_info = self.llm_processor.extract_information(...)
Extract ==
    /\ pc = "branch"
    /\ Truthy(search_results)
    /\ \E llm \in LLMOutcomes :
         LET out == extract_information(entities[idx + 1], prompt, search_results, llm) IN
         /\ lastLLM' = llm
         /\ extracted_info' = out.text
         /\ errors' = IF out.error THEN Append(errors, "llm") ELSE errors
         /\ trace' = Append(trace, Event("extract", idx,
                        [llm |-> llm, empty |-> (search_results = EmptyText)]))
    /\ pc' = "append"
    /\ UNCHANGED <<entities, prompt, idx, num_entities, results, search_results,
                   progress, lastResponse, snippets, exc>>

\* results.append({"Entity": entity, "Extracted Information": extracted_info})
AppendRecord ==
    /\ pc = "append"
    /\ results' = Append(results, Record(entities[idx + 1], extracted_info))
    /\ trace' = Append(trace, Event("append", idx, "extracted"))
    /\ pc' = "sleep"
    /\ UNCHANGED <<entities, prompt, idx, num_entities, search_results,
                   extracted_info, progress, errors, lastResponse, snippets,
                   lastLLM, exc>>

\* an else branch that records nothing
AppendSentinel_Drop ==
    /\ pc = "branch"
    /\ ~Truthy(search_results)
    /\ trace' = Append(trace, Event("append", idx, "sentinel"))
    /\ pc' = "sleep"
    /\ UNCHANGED <<entities, prompt, idx, num_entities, results, search_results,
                   extracted_info, progress, errors, lastResponse, snippets,
                   lastLLM, exc>>

\* else: results.append({"Entity": entity, "Extracted Information": "No data found"})
AppendSentinel ==
    /\ pc = "branch"
    /\ ~Truthy(search_results)
    /\ results' = Append(results, Record(entities[idx + 1], NoDataFound))
    /\ trace' = Append(trace, Event("append", idx, "sentinel"))
    /\ pc' = "sleep"
    /\ UNCHANGED <<entities, prompt, idx, num_entities, search_results,
                   extracted_info, progress, errors, lastResponse, snippets,
                   lastLLM, exc>>

\* a loop without the pacing sleep
Sleep_NoPacing ==
    /\ pc = "sleep"
    /\ idx' = idx + 1
    /\ pc' = "loop"
    /\ search_results' = EmptyText
    /\ extracted_info' = EmptyText
    /\ lastResponse' = NoResponse
    /\ snippets' = <<>>
    /\ lastLLM' = NoLLM
    /\ UNCHANGED <<entities, prompt, num_entities, results, progress, errors,
                   trace, exc>>

\* time.sleep(0.5), then the next iteration of the for loop.  The locals
\* search_results and extracted_info are rebound (lines 77, 79) before the
\* next iteration reads them, so their old values are dropped here together
\* with the record of the last provider answers.
Sleep ==
    /\ pc = "sleep"
    /\ trace' = Append(trace, Event("sleep", idx, "0.5"))
    /\ idx' = idx + 1
    /\ pc' = "loop"
    /\ search_results' = EmptyText
    /\ extracted_info' = EmptyText
    /\ lastResponse' = NoResponse
    /\ snippets' = <<>>
    /\ lastLLM' = NoLLM
    /\ UNCHANGED <<entities, prompt, num_entities, results, progress, errors, exc>>

\* return results
Return ==
    /\ pc = "loop"
    /\ idx >= Len(entities)
    /\ pc' = "returned"
    /\ UNCHANGED <<entities, prompt, idx, num_entities, results, search_results,
                   extracted_info, progress, errors, trace, lastResponse,
                   snippets, lastLLM, exc>>

Next ==
    \/ Call
    \/ Progress
    \/ Search
    \/ Extract
    \/ AppendRecord
    \/ AppendSentinel
    \/ Sleep
    \/ Return

Spec == Init /\ [][Next]_vars

TypeOK ==
    /\ pc \in {"start", "loop", "search", "branch", "append", "sleep", "returned", "raised"}
    /\ idx \in 0..Len(entities)
    /\ Len(results) <= Len(entities)

(* ------------------------------------------------------------------ *)
(* Vocabulary of the properties                                       *)
(* ------------------------------------------------------------------ *)
\* positions of the trace events of kind op for entity i (0-based, as idx)
Ev(op, i) == {p \in DOMAIN trace : trace[p].op = op /\ trace[p].i = i}

SearchEvents == {p \in DOMAIN trace : trace[p].op = "search"}
ExtractEvents == {p \in DOMAIN trace : trace[p].op = "extract"}

\* entity i (0-based) has its record in results
Recorded(i) == Len(results) >= i + 1

\* the iteration of entity i has passed its append
PastAppend(i) == idx > i \/ (idx = i /\ pc = "sleep")

\* the answers of the providers to the current entity are still on record
SearchReturned == pc \in {"branch", "append", "sleep"} /\ lastResponse.status # "none"

\* r is c without its leading and trailing whitespace
IsTrimOf(r, c) ==
    \E a \in 0..(Len(c) - Len(r)) :
        /\ \A j \in 1..Len(r) : r[j] = c[a + j]
        /\ \A j \in 1..a : c[j] \in Whitespace
        /\ \A j \in (a + Len(r) + 1)..Len(c) : c[j] \in Whitespace
        /\ Len(r) > 0 => (r[1] \notin Whitespace /\ r[Len(r)] \notin Whitespace)

\* the snippet text an element of organic_results stands for
ExpectedSnippet(item) == IF item.k = "str" THEN item.v ELSE EmptyText

\* the result list a well-formed response carries
ResultList(resp) == IF resp.org = "list" THEN resp.items ELSE <<>>

\* where snippet j starts in the joined text: after the j - 1 earlier
\* snippets and their separators
RECURSIVE Offset(_, _)
Offset(l, j) == IF j <= 1 THEN 0 ELSE Offset(l, j - 1) + Len(ExpectedSnippet(l[j - 1])) + 1

\* t is the snippets of l in order, one newline between neighbours
IsJoinOf(t, l) ==
    IF Len(l) = 0 THEN t = EmptyText
    ELSE /\ Len(t) = Offset(l, Len(l)) + Len(ExpectedSnippet(l[Len(l)]))
         /\ \A j \in 1..Len(l) :
              /\ \A k \in 1..Len(ExpectedSnippet(l[j])) :
                     t[Offset(l, j) + k] = ExpectedSnippet(l[j])[k]
              /\ j < Len(l) => t[Offset(l, j + 1)] = Newline

CountNewlines(t) == Cardinality({j \in 1..Len(t) : t[j] = Newline})

(* ------------------------------------------------------------------ *)
(* Properties                                                         *)
(* ------------------------------------------------------------------ *)
\* C1: whatever the search and model calls of a run answered (success, empty
\* result, soft failure), the run does not abort, record i is about input
\* entity i, and the returned list has exactly one record per input entity,
\* duplicates included.
C1_Cardinality ==
    (\A p \in SearchEvents : ~trace[p].d.malformed) =>
        /\ pc # "raised"
        /\ Len(results) <= Len(entities)
        /\ \A i \in 1..Len(results) : results[i].Entity = entities[i]
        /\ \A i \in 0..(Len(entities) - 1) : PastAppend(i) => Recorded(i)
        /\ pc = "returned" => Len(results) = Len(entities)

C1_Witness ==
    /\ pc = "returned"
    /\ Len(entities) = 2
    /\ entities[1] = entities[2]
    /\ Len(results) = 2
    /\ "search" \in {errors[j] : j \in DOMAIN errors}
    /\ "llm" \in {errors[j] : j \in DOMAIN errors}

\* C2: an entity whose search returned the empty text gets the record
\* "No data found" and no extraction call; every extraction call was made
\* with a non-empty search text.
C2_Sentinel ==
    /\ \A p \in ExtractEvents : ~trace[p].d.empty
    /\ pc = "append" => search_results # EmptyText
    /\ \A p \in SearchEvents :
          (trace[p].d.raised = "none" /\ trace[p].d.empty) =>
              /\ Ev("extract", trace[p].i) = {}
              /\ PastAppend(trace[p].i) =>
                    /\ Recorded(trace[p].i)
                    /\ results[trace[p].i + 1].Extracted = NoDataFound

C2_Witness ==
    /\ pc = "returned"
    /\ \E p \in SearchEvents :
          /\ trace[p].d.status = "ok"
          /\ trace[p].d.empty
          /\ results[trace[p].i + 1].Extracted = NoDataFound
    /\ ExtractEvents # {}

\* C3: a transport failure of the search for entity k stays inside search
\* (empty text, error reported, no exception), entity k gets the sentinel, and
\* every entity whose own search and model calls succeeded holds the model's
\* trimmed answer.
C3_SoftFailure ==
    /\ \A p \in SearchEvents :
          trace[p].d.status \in {"neterr", "httperr"} =>
              /\ trace[p].d.raised = "none"
              /\ trace[p].d.empty
              /\ "search" \in {errors[j] : j \in DOMAIN errors}
              /\ ~(pc = "raised" /\ p = Len(trace))
              /\ PastAppend(trace[p].i) =>
                    /\ Recorded(trace[p].i)
                    /\ results[trace[p].i + 1].Extracted = NoDataFound
    /\ \A p \in ExtractEvents :
          (trace[p].d.llm.kind = "ok" /\ PastAppend(trace[p].i)) =>
              /\ Recorded(trace[p].i)
              /\ IsTrimOf(results[trace[p].i + 1].Extracted, trace[p].d.llm.content)

C3_Witness ==
    /\ pc = "returned"
    /\ Len(entities) = 2
    /\ \E p \in Ev("search", 0) : trace[p].d.status = "httperr"
    /\ results[1].Extracted = NoDataFound
    /\ \E p \in Ev("extract", 1) : trace[p].d.llm.kind = "ok"
    /\ results[2].Extracted = <<"J">>

\* C4: a malformed search response is never raised as an error: search
\* returns a text and the run is not aborted.
C4_MalformedTolerated ==
    /\ \A p \in SearchEvents : trace[p].d.malformed => trace[p].d.raised = "none"
    /\ exc = "none"

\* C5: on a successful response the returned text is the snippets of the
\* results in the provider's order with one newline between neighbours, a
\* missing snippet counting as the empty string; no results, no text.
C5_SnippetJoin ==
    (SearchReturned /\ lastResponse.status = "ok") =>
        /\ IsJoinOf(search_results, ResultList(lastResponse))
        /\ lastResponse.items = SpecExampleList =>
              search_results = <<"a", "\n", "b", "\n">>
        /\ Len(ResultList(lastResponse)) = 0 => search_results = EmptyText

C5_Witness ==
    /\ pc = "branch"
    /\ lastResponse.status = "ok"
    /\ lastResponse.items = SpecExampleList
    /\ search_results = <<"a", "\n", "b", "\n">>

\* C6: a successful model call yields the first choice's content without its
\* leading and trailing whitespace; a failed one yields the empty text and no
\* exception, the record {entity, ""} is appended and the loop goes on.
C6_Extract ==
    /\ (pc \in {"append", "sleep"} /\ lastLLM.kind = "ok") =>
          /\ IsTrimOf(extracted_info, lastLLM.content)
          /\ lastLLM.content = ExampleContent =>
                extracted_info = <<"a","n","s","w","e","r"," ","t","e","x","t">>
    /\ (pc \in {"append", "sleep"} /\ lastLLM.kind \notin {"ok", "none"}) =>
          /\ extracted_info = EmptyText
          /\ "llm" \in {errors[j] : j \in DOMAIN errors}
    /\ \A p \in ExtractEvents :
          /\ ~(pc = "raised" /\ p = Len(trace))
          /\ (trace[p].d.llm.kind # "ok" /\ PastAppend(trace[p].i)) =>
                /\ Recorded(trace[p].i)
                /\ results[trace[p].i + 1] = Record(entities[trace[p].i + 1], EmptyText)

C6_Witness ==
    /\ pc = "returned"
    /\ Len(entities) = 2
    /\ \E p \in Ev("extract", 0) : trace[p].d.llm.kind = "api_error"
    /\ results[1].Extracted = EmptyText
    /\ \E p \in Ev("extract", 1) : trace[p].d.llm.content = ExampleContent
    /\ results[2].Extracted = <<"a","n","s","w","e","r"," ","t","e","x","t">>

\* C7 as stated: every record holds the trimmed answer of a model call that
\* answered, or the sentinel of an entity without search text; nothing else.
C7_TwoKinds ==
    \A i \in 1..Len(results) :
        \/ /\ results[i].Extracted = NoDataFound
           /\ \E p \in Ev("search", i - 1) : trace[p].d.empty
        \/ \E p \in Ev("extract", i - 1) :
               /\ trace[p].d.llm.kind = "ok"
               /\ IsTrimOf(results[i].Extracted, trace[p].d.llm.content)

\* C7 amended: every record holds the sentinel when the entity had no search
\* text, the model's trimmed answer when the model call answered, and the
\* empty text when the model call failed.
C7_ThreeKinds ==
    \A i \in 1..Len(results) :
        \/ /\ results[i].Extracted = NoDataFound
           /\ \E p \in Ev("search", i - 1) : trace[p].d.empty
           /\ Ev("extract", i - 1) = {}
        \/ \E p \in Ev("extract", i - 1) :
               /\ trace[p].d.llm.kind = "ok"
               /\ IsTrimOf(results[i].Extracted, trace[p].d.llm.content)
        \/ \E p \in Ev("extract", i - 1) :
               /\ trace[p].d.llm.kind # "ok"
               /\ results[i].Extracted = EmptyText

C7_Witness ==
    /\ pc = "returned"
    /\ Len(results) = 2
    /\ \E p \in Ev("extract", 0) : trace[p].d.llm.kind = "null_content"
    /\ results[1].Extracted = EmptyText
    /\ results[2].Extracted = NoDataFound

\* C8: the text search returns holds at most five snippets, hence at most
\* four separators, whatever the provider answered.
C8_AtMostFive ==
    (SearchReturned /\ lastResponse.status = "ok") =>
        /\ Len(snippets) <= NumRequested
        /\ CountNewlines(search_results) <= NumRequested - 1

\* C9: the trace of a run is, entity by entity in input order: progress
\* (i+1)/n, one search, at most one extraction and only after a non-empty
\* search, one append, one sleep; nothing of entity i+1 precedes the sleep of
\* entity i, and the run returns only after the sleep of the last entity.
Follows(e, f) ==
    CASE e.op = "progress" -> f.op = "search" /\ f.i = e.i
      [] e.op = "search" ->
            /\ e.d.raised = "none"
            /\ f.i = e.i
            /\ IF e.d.empty THEN f.op = "append" /\ f.d = "sentinel"
                           ELSE f.op = "extract"
      [] e.op = "extract" -> f.op = "append" /\ f.i = e.i /\ f.d = "extracted"
      [] e.op = "append" -> f.op = "sleep" /\ f.i = e.i
      [] e.op = "sleep" -> f.op = "progress" /\ f.i = e.i + 1

C9_Sequential ==
    /\ Len(trace) > 0 => (trace[1].op = "progress" /\ trace[1].i = 0)
    /\ \A p \in 1..(Len(trace) - 1) : Follows(trace[p], trace[p + 1])
    /\ \A p \in DOMAIN trace :
          /\ trace[p].i \in 0..(Len(entities) - 1)
          /\ trace[p].op = "progress" => trace[p].d = <<trace[p].i + 1, Len(entities)>>
    /\ Len(results) = Cardinality({p \in DOMAIN trace : trace[p].op = "append"})
    /\ pc = "returned" =>
          IF Len(entities) = 0 THEN trace = <<>>
          ELSE /\ trace[Len(trace)].op = "sleep"
               /\ trace[Len(trace)].i = Len(entities) - 1

C9_Witness ==
    /\ pc = "returned"
    /\ Len(entities) = 2
    /\ Len(trace) = 9
    /\ trace[3].op = "extract"
    /\ trace[8].op = "append"

\* C10: for a successful response the sentinel branch is taken exactly when
\* the result list is empty or is one result without snippet text; two or
\* more results that all lack a snippet join to a text of newlines only, and
\* extract_information is called on it.
OneBlank(l) == Len(l) = 1 /\ ExpectedSnippet(l[1]) = EmptyText

SentinelTaken ==
    /\ trace[Len(trace)].op = "append"
    /\ trace[Len(trace)].d = "sentinel"
    /\ results[idx + 1].Extracted = NoDataFound
    /\ lastLLM = NoLLM

C10_JoinedTextDecides ==
    (pc = "sleep" /\ lastResponse.status = "ok") =>
        LET l == ResultList(lastResponse) IN
        /\ SentinelTaken <=> (Len(l) = 0 \/ OneBlank(l))
        /\ (Len(l) >= 2 /\ \A j \in 1..Len(l) : l[j].k = "absent") =>
              /\ search_results = [j \in 1..(Len(l) - 1) |-> Newline]
              /\ lastLLM # NoLLM
              /\ Ev("extract", idx) # {}
              /\ results[idx + 1].Extracted = extracted_info

C10_Witness ==
    /\ pc = "sleep"
    /\ lastResponse.status = "ok"
    /\ lastResponse.items = <<AbsentItem, AbsentItem>>
    /\ search_results = <<Newline>>
    /\ lastLLM.kind = "ok"
    /\ results[idx + 1].Extracted = <<"J">>
====
